---- MODULE Spec2Model ----
(***************************************************************************)
(* A state-machine model of the traildb Rust binding (src/src/lib.rs).     *)
(*                                                                         *)
(* The binding is a thin layer over the TrailDB engine, which it reaches   *)
(* through `mod ffi`.  The wrappers (Constructor, Db, DbIter, Cursor,      *)
(* Trail, Event, wrap_tdb_err) are modelled from lib.rs.  The engine       *)
(* functions behind the ffi module are not part of lib.rs; they are        *)
(* modelled from the design document (operators with the prefix tdb).      *)
(***************************************************************************)
EXTENDS Integers, Sequences, FiniteSets, TLC

\* ------------------------------------------------------------------ bounds
NumUuids == 2
MaxAdds == 2

\* Number of user fields the Constructor is opened with (test: field_names).
NumUserFields == 2
\* The field names the Constructor is opened with (test: field_names).
FieldNames == <<"field1", "field2">>

Uuids == 1..NumUuids
Timestamps == {0, 1}
Values == {"a", "b"}
UserFields == 1..NumUserFields
\* The value tuples passed to add with one value per user field: each
\* value in each field, the fields of one event differing.
ValueTuples ==
    {v \in [UserFields -> Values] :
        \A f, g \in UserFields : f # g => v[f] # v[g]}

\* ------------------------------------------------------------ error codes
\* ffi::tdb_error::TDB_ERR_OK and the discriminants of `enum Error`.
TDB_ERR_OK == 0
UnknownUuid == 0 - 5
InvalidTrailId == 0 - 6
HandleAlreadyOpened == 0 - 8
IoOpen == 0 - 65
IoClose == 0 - 66
IoWrite == 0 - 67
IoTruncate == 0 - 69
IoPackage == 0 - 70
InvalidPackage == 0 - 137
UnknownField == 0 - 4
TooManyFields == 0 - 257
DuplicateFields == 0 - 258
InvalidFieldname == 0 - 259
TooManyTrails == 0 - 260
ValueTooLong == 0 - 261
AppendFieldsMismatch == 0 - 262
LexiconTooLarge == 0 - 263
TimestampTooLarge == 0 - 264
TrailTooLong == 0 - 265

\* Option<T> and raw pointers: the empty sequence is None / the null
\* pointer, a one-element sequence is Some(x) / a pointer to x.
None == <<>>
Some(x) == <<x>>
NULL == <<>>

\* Result<(), Error> / Result<T, Error>: ok with a value, or an error code.
WrapAlwaysOk(err, val) == [ok |-> TRUE, val |-> val]
\* fn wrap_tdb_err: TDB_ERR_OK => Ok(val), anything else => Err(transmute(err)).
wrap_tdb_err(err, val) ==
    IF err = TDB_ERR_OK THEN [ok |-> TRUE, val |-> val]
                        ELSE [ok |-> FALSE, val |-> err]

\* ---------------------------------------------------------------- helpers
Range(s) == {s[i] : i \in 1..Len(s)}
IndexOf(s, x) == CHOOSE i \in 1..Len(s) : s[i] = x
RECURSIVE Filter(_, _)
\* The events of sequence s that belong to uuid u, in their order in s.
Filter(s, u) ==
    IF s = <<>> THEN <<>>
    ELSE IF Head(s).uuid = u THEN <<Head(s)>> \o Filter(Tail(s), u)
         ELSE Filter(Tail(s), u)
SetMin(S) == CHOOSE x \in S : \A y \in S : x <= y
SetMax(S) == CHOOSE x \in S : \A y \in S : x >= y

\* ------------------------------------------------ engine: lexicon / items
\* Item codec: one integer combining a field id (low byte) and a value id.
tdb_make_item(field, val) == field + 256 * val
tdb_item_field(item) == item % 256
tdb_item_val(item) == item \div 256

\* Lexicon intern: equal byte strings of one field map to one value id;
\* ids are assigned in insertion order, starting at 1, and never reassigned.
lexicon_intern(lex, v) == IF v \in Range(lex) THEN lex ELSE Append(lex, v)
lexicon_id(lex, v) == IndexOf(lex, v)

\* ------------------------------------------------ engine: constructor
\* The limits of the format when no option lowers them: none of the inputs
\* of the model reaches them.
TDB_MAX_VALUE_SIZE == 1000
TDB_MAX_TIMEDELTA == 1000
TDB_MAX_NUM_TRAILS == 1000
TDB_MAX_TRAIL_LENGTH == 1000
TDB_MAX_NUM_VALUES == 1000
TDB_MAX_NUM_FIELDS == 1000
DefaultOptions ==
    [max_value_len |-> TDB_MAX_VALUE_SIZE, max_timestamp |-> TDB_MAX_TIMEDELTA,
     max_trails |-> TDB_MAX_NUM_TRAILS, max_trail_len |-> TDB_MAX_TRAIL_LENGTH,
     max_lexicon |-> TDB_MAX_NUM_VALUES]

\* A field name is made of letters and digits.
ValidFieldname(name) ==
    /\ Len(name) > 0
    /\ \A i \in 1..Len(name) : SubSeq(name, i, i) # "?"

\* tdb_cons_open: checks the count and the names of the fields (each valid,
\* no two equal), then gives an open builder with one empty lexicon a field.
tdb_cons_open(names, opt) ==
    LET c == [st |-> "open", uuids |-> <<>>, events |-> <<>>,
              fields |-> names, opt |-> opt,
              lexicon |-> [f \in 1..Len(names) |-> <<>>]]
    IN IF Len(names) > TDB_MAX_NUM_FIELDS
       THEN [err |-> TooManyFields, cons |-> c]
       ELSE IF \E f \in 1..Len(names) : ~ValidFieldname(names[f])
       THEN [err |-> InvalidFieldname, cons |-> c]
       ELSE IF \E f, g \in 1..Len(names) : f # g /\ names[f] = names[g]
       THEN [err |-> DuplicateFields, cons |-> c]
       ELSE [err |-> TDB_ERR_OK, cons |-> c]

\* tdb_cons_close: frees the builder and everything it accumulated.
tdb_cons_close(c) ==
    [c EXCEPT !.st = "closed", !.uuids = <<>>, !.events = <<>>,
              !.lexicon = [f \in 1..Len(c.fields) |-> <<>>]]

\* The user fields of a builder.
cons_fields(c) == 1..Len(c.fields)

\* A builder that accepts events also after finalize.
tdb_cons_add_unguarded(c, uuid, timestamp, values) ==
    LET lex == [f \in cons_fields(c) |->
                   lexicon_intern(c.lexicon[f], values[f])]
        items == [f \in cons_fields(c) |->
                     tdb_make_item(f, lexicon_id(lex[f], values[f]))]
    IN [err |-> TDB_ERR_OK,
        cons |-> [c EXCEPT
            !.lexicon = lex,
            !.uuids = IF uuid \in Range(c.uuids) THEN c.uuids
                      ELSE Append(c.uuids, uuid),
            !.events = Append(c.events,
                [uuid |-> uuid, timestamp |-> timestamp, items |-> items])]]

\* The capacity limit an event would exceed, TDB_ERR_OK when it fits.
cons_capacity(c, uuid, timestamp, values) ==
    IF \E f \in cons_fields(c) : Len(values[f]) > c.opt.max_value_len
    THEN ValueTooLong
    ELSE IF timestamp > c.opt.max_timestamp
    THEN TimestampTooLarge
    ELSE IF uuid \notin Range(c.uuids) /\ Len(c.uuids) >= c.opt.max_trails
    THEN TooManyTrails
    ELSE IF Len(Filter(c.events, uuid)) >= c.opt.max_trail_len
    THEN TrailTooLong
    ELSE IF \E f \in cons_fields(c) :
                /\ values[f] \notin Range(c.lexicon[f])
                /\ Len(c.lexicon[f]) >= c.opt.max_lexicon
    THEN LexiconTooLarge
    ELSE TDB_ERR_OK

\* tdb_cons_add: interns each value, gives a new Uuid a provisional trail
\* slot, appends the event.  A spent (finalized) builder rejects the event;
\* an event that would exceed a capacity limit is rejected before anything
\* is changed.
tdb_cons_add(c, uuid, timestamp, values) ==
    IF c.st = "finalized"
    THEN [err |-> HandleAlreadyOpened, cons |-> c]
    ELSE IF cons_capacity(c, uuid, timestamp, values) # TDB_ERR_OK
    THEN [err |-> cons_capacity(c, uuid, timestamp, values), cons |-> c]
    ELSE tdb_cons_add_unguarded(c, uuid, timestamp, values)

RECURSIVE SortByTime(_)
\* The events of a sequence by increasing timestamp.
SortByTime(s) ==
    IF s = <<>> THEN <<>>
    ELSE LET m == SetMin({s[i].timestamp : i \in 1..Len(s)})
         IN SelectSeq(s, LAMBDA e : e.timestamp = m)
                \o SortByTime(SelectSeq(s, LAMBDA e : e.timestamp # m))
\* A finalize that sorts the events of each trail by time.
tdb_encode_time_sorted(c) ==
    [uuids |-> c.uuids,
     trails |-> [i \in 1..Len(c.uuids) |->
                    SortByTime(Filter(c.events, c.uuids[i]))],
     lexicon |-> c.lexicon,
     fields |-> <<"time">> \o c.fields,
     num_fields |-> Len(c.fields) + 1,
     num_events |-> Len(c.events),
     min_timestamp |-> IF c.events = <<>> THEN 0
         ELSE SetMin({c.events[i].timestamp : i \in 1..Len(c.events)}),
     max_timestamp |-> IF c.events = <<>> THEN 0
         ELSE SetMax({c.events[i].timestamp : i \in 1..Len(c.events)})]

\* The finalized database image: uuid table and trail blocks in TrailId
\* order (TrailId i is index i+1), frozen lexicon, cached header fields.
tdb_encode(c) ==
    [uuids |-> c.uuids,
     trails |-> [i \in 1..Len(c.uuids) |-> Filter(c.events, c.uuids[i])],
     lexicon |-> c.lexicon,
     fields |-> <<"time">> \o c.fields,
     num_fields |-> Len(c.fields) + 1,
     num_events |-> Len(c.events),
     min_timestamp |-> IF c.events = <<>> THEN 0
         ELSE SetMin({c.events[i].timestamp : i \in 1..Len(c.events)}),
     max_timestamp |-> IF c.events = <<>> THEN 0
         ELSE SetMax({c.events[i].timestamp : i \in 1..Len(c.events)})]

\* ------------------------------------------------ engine: reader
tdb_num_trails(d) == Len(d.uuids)
tdb_num_events(d) == d.num_events
tdb_num_fields(d) == d.num_fields
tdb_min_timestamp(d) == d.min_timestamp
tdb_max_timestamp(d) == d.max_timestamp

\* tdb_get_field_name: pointer to the field's name, NULL for a field the
\* database does not have.
tdb_get_field_name(d, field) ==
    IF field < d.num_fields THEN <<d.fields[field + 1]>> ELSE NULL

\* tdb_get_trail_id: writes the TrailId through the out pointer when the
\* uuid is present (id0 is what the out parameter held before the call).
tdb_get_trail_id(d, uuid, id0) ==
    IF uuid \in Range(d.uuids)
    THEN [err |-> TDB_ERR_OK, id |-> IndexOf(d.uuids, uuid) - 1]
    ELSE [err |-> UnknownUuid, id |-> id0]

\* tdb_get_uuid: pointer to the uuid of trail_id, NULL when out of range.
tdb_get_uuid(d, trail_id) ==
    IF trail_id < Len(d.uuids) THEN <<d.uuids[trail_id + 1]>> ELSE NULL

\* tdb_get_item_value: the byte string of the item's (field, value id).
tdb_get_item_value(d, item) ==
    d.lexicon[tdb_item_field(item)][tdb_item_val(item)]

\* ------------------------------------------------ engine: append
RECURSIVE tdb_trails_concat(_, _)
\* The events of the trails i, i+1, ... of a database, trail after trail.
tdb_trails_concat(d, i) ==
    IF i > Len(d.uuids) THEN <<>>
    ELSE d.trails[i] \o tdb_trails_concat(d, i + 1)

RECURSIVE tdb_cons_add_all(_, _, _)
\* Adds the events evs of database d to the builder, each with the byte
\* strings that its items have in d.
tdb_cons_add_all(c, d, evs) ==
    IF evs = <<>> THEN c
    ELSE tdb_cons_add_all(
             tdb_cons_add_unguarded(c, Head(evs).uuid, Head(evs).timestamp,
                 [f \in cons_fields(c) |->
                     tdb_get_item_value(d, Head(evs).items[f])]).cons,
             d, Tail(evs))

\* Whether a pointer points to a database handle.
IsTdb(ptr) == ptr # NULL /\ "uuids" \in DOMAIN ptr[1]

\* tdb_cons_append: the fields of the database must be the builder's, in
\* the same order; then every trail of the database is added to the
\* builder, after the events the builder already has for the uuid.  Given
\* a pointer to anything but a database handle, the behaviour is undefined.
tdb_cons_append(c, ptr) ==
    IF ~IsTdb(ptr)
    THEN [ub |-> TRUE, err |-> TDB_ERR_OK, cons |-> c]
    ELSE IF ptr[1].fields # <<"time">> \o c.fields
    THEN [ub |-> FALSE, err |-> AppendFieldsMismatch, cons |-> c]
    ELSE [ub |-> FALSE, err |-> TDB_ERR_OK,
          cons |-> tdb_cons_add_all(c, ptr[1], tdb_trails_concat(ptr[1], 1))]

\* ------------------------------------------------ engine: cursor
\* tdb_cursor_new: an unbound cursor.
tdb_cursor_new == [bound |-> FALSE, trail |-> 0, pos |-> 0]

\* A bind that keeps the old position.
tdb_get_trail_keep_pos(c, d, trail_id) ==
    IF trail_id < tdb_num_trails(d)
    THEN [err |-> TDB_ERR_OK, cur |-> [c EXCEPT !.bound = TRUE, !.trail = trail_id]]
    ELSE [err |-> InvalidTrailId, cur |-> c]

\* tdb_get_trail: binds the cursor to trail_id at the trail's first event.
tdb_get_trail(c, d, trail_id) ==
    IF trail_id < tdb_num_trails(d)
    THEN [err |-> TDB_ERR_OK,
          cur |-> [bound |-> TRUE, trail |-> trail_id, pos |-> 0]]
    ELSE [err |-> InvalidTrailId, cur |-> c]

\* The events of the trail the cursor is bound to.
cursor_trail(c, d) == IF c.bound THEN d.trails[c.trail + 1] ELSE <<>>

\* tdb_get_trail_length: the bound trail's total event count, read from the
\* trail block's header; the cursor keeps its position.
tdb_get_trail_length(c, d) ==
    [len |-> Len(cursor_trail(c, d)), cur |-> c]

\* tdb_cursor_next: the next event of the bound trail, NULL when exhausted.
tdb_cursor_next(c, d) ==
    IF c.pos < Len(cursor_trail(c, d))
    THEN LET e == cursor_trail(c, d)[c.pos + 1]
         IN [event |-> <<[timestamp |-> e.timestamp,
                          num_items |-> d.num_fields - 1,
                          items |-> e.items]>>,
             cur |-> [c EXCEPT !.pos = c.pos + 1]]
    ELSE [event |-> NULL, cur |-> c]

\* ======================================================== the Rust binding
VARIABLES
    cons,     \* the Constructor: the builder handle and what it accumulated
    added,    \* history: the inputs of the add calls that returned Ok
    disk,     \* the database written at the Constructor's path, if any
    db,       \* the Db value: st is "none", "open" or "closed"
    cursor,   \* the Cursor obtained from Db::cursor
    iter,     \* the DbIter obtained from Db::iter
    trail,    \* the Trail last obtained from DbIter::next or Db::get_trail
    ret,      \* the result of the last call
    ub,       \* "no", or what undefined behaviour has made of the process
    cursor2,  \* a second Cursor obtained from Db::cursor
    heap,     \* the number of cursor handles allocated and not freed
    event     \* the Event of Cursor::next that the caller holds, if any

vars ==
    <<cons, added, disk, db, cursor, iter, trail, ret, ub, cursor2, heap,
      event>>

\* The process runs until undefined behaviour has crashed it.
Alive == ub # "crashed"

\* -------------------------------------------------------- pure wrappers
\* Db::num_trails / Db::num_events / Db::num_fields forward to the engine.
Db_num_trails(d) == tdb_num_trails(d)
Db_num_events_as_trails(d) == tdb_num_trails(d)
Db_num_events(d) == tdb_num_events(d)
Db_num_fields_user(d) == tdb_num_fields(d) - 1
Db_num_fields(d) == tdb_num_fields(d)

\* Db::get_trail_id: `id` starts as 0; Some(id) on TDB_ERR_OK, else None.
Db_get_trail_id_always_some(d, uuid) == Some(tdb_get_trail_id(d, uuid, 0).id)
Db_get_trail_id(d, uuid) ==
    LET r == tdb_get_trail_id(d, uuid, 0)
    IN IF r.err = TDB_ERR_OK THEN Some(r.id) ELSE None

\* <*const T>::as_ref: None for the null pointer, Some(&*ptr) otherwise.
as_ref(ptr) == IF ptr = NULL THEN None ELSE Some(ptr[1])

\* Db::get_uuid
Db_get_uuid(d, trail_id) == as_ref(tdb_get_uuid(d, trail_id))

\* Db::get_item_value: the item's bytes as a str.
Db_get_item_value(d, item) == tdb_get_item_value(d, item)

\* An Event whose slice starts one item late.
Event_from_tdb_event_shifted(e) ==
    IF as_ref(e) = None THEN None
    ELSE Some([timestamp |-> e[1].timestamp,
               items |-> SubSeq(e[1].items, 2, e[1].num_items) \o <<e[1].items[1]>>])
\* Event::from_tdb_event: None for a null event, else the timestamp and the
\* slice of num_items items.
Event_from_tdb_event(e) ==
    IF as_ref(e) = None THEN None
    ELSE Some([timestamp |-> e[1].timestamp,
               items |-> SubSeq(e[1].items, 1, e[1].num_items)])

\* Db::get_field_name: CStr::from_ptr of the engine's pointer, with no test
\* for the null pointer (deref: the null pointer was dereferenced); to_str
\* gives Some(name), the names of a database being valid UTF-8.
Db_get_field_name(d, field) ==
    LET ptr == tdb_get_field_name(d, field)
    IN IF ptr = NULL THEN [deref |-> TRUE, val |-> None]
       ELSE [deref |-> FALSE, val |-> Some(ptr[1])]

\* <&str>::as_ptr read as a C string: a str has no terminating NUL, so the
\* engine reads the name and then the bytes that follow it in memory
\* (tail), up to the first NUL.
as_ptr(name, tail) == name \o tail

\* Constructor::new: the pointers of the names and their count go to
\* tdb_cons_open; Ok gives the Constructor (declared: the names it was
\* called with).
Constructor_new(fields, tails) ==
    LET r == tdb_cons_open([f \in 1..Len(fields) |-> as_ptr(fields[f], tails[f])],
                           DefaultOptions)
    IN wrap_tdb_err(r.err, r.cons @@ [declared |-> fields])

\* The bytes after a name in memory: none (a NUL follows), a letter, or a
\* character that no field name may have.
Tails == {"", "x", "?"}

\* The place of the Constructor when Constructor::new has returned Err.
NoConstructor ==
    [st |-> "none", uuids |-> <<>>, events |-> <<>>, fields |-> <<>>,
     opt |-> DefaultOptions, lexicon |-> <<>>, declared |-> <<>>]

\* Db::min_timestamp / Db::max_timestamp forward to the engine.
Db_min_timestamp_as_max(d) == tdb_max_timestamp(d)
Db_min_timestamp(d) == tdb_min_timestamp(d)
Db_max_timestamp(d) == tdb_max_timestamp(d)

\* A Cursor whose drop frees nothing.
Cursor_drop_leak(h) == h
\* impl Drop for Cursor: tdb_cursor_free releases the Cursor's handle.
Cursor_drop(h) == h - 1
\* Db::cursor: tdb_cursor_new allocates the handle of the new Cursor.
Db_cursor(h) == h + 1

\* Two Cursors on one handle: a call on one moves the other.
SharedHandle(called, other) == [other EXCEPT !.obj = called.obj]
\* Each Cursor holds the handle that its own Db::cursor call allocated: a
\* call on one Cursor leaves the engine state of another where it was.
OwnHandle(called, other) == other

\* The value a call leaves in `ret`.
Ret(op, arg, r) ==
    [op |-> op, arg |-> arg, ok |-> r.ok, val |-> r.val, prev |-> ""]
Done(op) == [op |-> op, arg |-> 0, ok |-> TRUE, val |-> 0, prev |-> ""]

NoCursor == [st |-> "none", obj |-> tdb_cursor_new, yielded |-> <<>>,
             exhausted |-> FALSE]

NoIter == [st |-> "none", pos |-> 0, yielded |-> <<>>, ended |-> FALSE]
NoTrail == [st |-> "none", id |-> 0, cursor |-> NoCursor]

\* The state when Constructor::new(path, fields) has returned: the
\* Constructor, or the error and no Constructor.
New(fields, tails) ==
    /\ LET r == Constructor_new(fields, tails)
       IN /\ cons = IF r.ok THEN r.val ELSE NoConstructor
          /\ ret = [Ret("new", Len(fields), r) EXCEPT
                       !.val = IF r.ok THEN 0 ELSE r.val]
    /\ added = <<>>
    /\ disk = None
    /\ db = [st |-> "none", obj |-> None]
    /\ cursor = NoCursor
    /\ iter = NoIter
    /\ trail = NoTrail
    /\ ub = "no"
    /\ cursor2 = NoCursor
    /\ heap = 0
    /\ event = None

\* Constructor::new with the field names of the test, whatever bytes follow
\* each name in memory.
Init == \E tails \in [1..Len(FieldNames) -> Tails] : New(FieldNames, tails)

\* ------------------------------------------------------------ Constructor
\* Constructor::add: one pointer and one length a value go to the engine,
\* with no count; the engine's code goes through wrap_tdb_err.  The engine
\* reads one pointer and one length a field: given fewer values than
\* fields it reads past the end of val_ptrs and val_lens (junk: what the
\* memory there makes of the missing values).
Junk == {""} \cup Values
Constructor_add(uuid, timestamp, values) ==
    /\ IF Len(values) < Len(cons.fields)
       THEN \E outcome \in {"ub", "crashed"}, junk \in Junk,
               err \in {TDB_ERR_OK, ValueTooLong} :
               LET read == [f \in cons_fields(cons) |->
                               IF f <= Len(values) THEN values[f] ELSE junk]
                   r == IF err = TDB_ERR_OK /\ outcome = "ub"
                        THEN tdb_cons_add(cons, uuid, timestamp, read)
                        ELSE [err |-> err, cons |-> cons]
                   res == wrap_tdb_err(r.err, 0)
               IN /\ ub' = outcome
                  /\ cons' = r.cons
                  /\ ret' = [Ret("add", Len(values), res) EXCEPT
                                !.prev = cons.st]
                  /\ added' = IF res.ok /\ outcome = "ub"
                        THEN Append(added, [uuid |-> uuid,
                                 timestamp |-> timestamp, values |-> read])
                        ELSE added
       ELSE LET r == tdb_cons_add(cons, uuid, timestamp, values)
                res == wrap_tdb_err(r.err, 0)
            IN /\ ub' = ub
               /\ cons' = r.cons
               /\ ret' = [Ret("add", Len(values), res) EXCEPT
                             !.prev = cons.st]
               /\ added' = IF res.ok
                     THEN Append(added, [uuid |-> uuid,
                              timestamp |-> timestamp, values |-> values])
                     ELSE added
    /\ UNCHANGED <<disk, db, cursor, iter, trail, cursor2, heap, event>>

\* Constructor::add on a Constructor whose handle has not been closed.
ConsAdd(uuid, timestamp, values) ==
    /\ \/ cons.st = "open" /\ Len(cons.events) < MaxAdds
       \/ cons.st = "finalized" /\ Len(cons.events) <= MaxAdds
    /\ Constructor_add(uuid, timestamp, values)

\* Constructor::add on an open Constructor.
ConsAddOpen(uuid, timestamp, values) ==
    /\ cons.st = "open"
    /\ ConsAdd(uuid, timestamp, values)

\* Constructor::add on a finalized Constructor: the engine answers before it
\* reads the uuid, the timestamp or the values, so that one input of the
\* full number of values stands for every such input.
ConsAddSpent ==
    /\ cons.st = "finalized"
    /\ \E v \in ValueTuples : v[2] = "a" /\ ConsAdd(1, 0, v)

\* The codes with which the engine's finalize fails.
FinalizeErrors ==
    {IoOpen, IoClose, IoWrite, IoTruncate, IoPackage, InvalidPackage}

\* Constructor::finalize on an open Constructor: the engine writes the
\* database, or fails to write it; its code goes through wrap_tdb_err.
\* finalize takes `&mut self` and keeps the handle whatever the engine
\* answered: a finalize that returned Err has consumed nothing, the builder
\* is the one add filled, and add, finalize, append and close are called
\* on it as before.
ConsFinalize ==
    /\ cons.st = "open"
    /\ \E err \in {TDB_ERR_OK} \cup FinalizeErrors :
          /\ cons' = IF err = TDB_ERR_OK
                     THEN [cons EXCEPT !.st = "finalized"] ELSE cons
          /\ disk' = IF err = TDB_ERR_OK THEN Some(tdb_encode(cons)) ELSE disk
          /\ ret' = [Ret("finalize", 0, wrap_tdb_err(err, 0)) EXCEPT
                        !.prev = cons.st]
    /\ UNCHANGED <<added, db, cursor, iter, trail, ub, cursor2, heap, event>>

\* Constructor::close on an open Constructor: frees the builder, writes nothing.
ConsClose ==
    /\ cons.st = "open"
    /\ cons' = tdb_cons_close(cons)
    /\ ret' = [Done("cons_close") EXCEPT !.prev = cons.st]
    /\ UNCHANGED <<added, disk, db, cursor, iter, trail, ub, cursor2, heap, event>>

\* Constructor::append as a function of the builder and the Db value: the
\* engine is handed transmute(db), and db is a `&Db`: the address of the Db
\* value (the struct that holds `obj`), not the database handle `db.obj`.
Constructor_append(c, d) == tdb_cons_append(c, <<d>>)

\* The events of the open database, read trail by trail through the Db.
DbLog ==
    LET d == db.obj[1]
        evs == tdb_trails_concat(d, 1)
    IN [i \in 1..Len(evs) |->
           [uuid |-> evs[i].uuid, timestamp |-> evs[i].timestamp,
            values |-> [f \in 1..Len(evs[i].items) |->
                           tdb_get_item_value(d, evs[i].items[f])]]]

\* Constructor::append(&db) on a Constructor whose handle has not been
\* closed, db a Db value, open or closed.  When the call returns Ok, the
\* history takes the events of db as accepted.
ConsAppend ==
    /\ cons.st \in {"open", "finalized"} /\ db.st # "none"
    /\ Len(added) <= MaxAdds
    /\ LET r == Constructor_append(cons, db)
       IN IF r.ub
          THEN \E outcome \in {"ub", "crashed"},
                  err \in {TDB_ERR_OK, AppendFieldsMismatch} :
                  /\ ub' = outcome
                  /\ cons' = cons
                  /\ ret' = [Ret("append", 0, wrap_tdb_err(err, 0)) EXCEPT
                                !.prev = cons.st]
                  /\ added' = IF err = TDB_ERR_OK
                               THEN added \o DbLog ELSE added
          ELSE /\ ub' = ub
               /\ cons' = r.cons
               /\ ret' = [Ret("append", 0, wrap_tdb_err(r.err, 0)) EXCEPT
                             !.prev = cons.st]
               /\ added' = IF r.err = TDB_ERR_OK
                            THEN added \o DbLog ELSE added
    /\ UNCHANGED <<disk, db, cursor, iter, trail, cursor2, heap, event>>

\* ---------------------------------------------------------------------- Db
\* Db::open of the Constructor's path.
DbOpen ==
    /\ db.st = "none"
    /\ IF disk = None
       THEN /\ ret' = Ret("open", 0, wrap_tdb_err(IoOpen, 0))
            /\ db' = db
       ELSE /\ ret' = Ret("open", 0, wrap_tdb_err(TDB_ERR_OK, 0))
            /\ db' = [st |-> "open", obj |-> disk]
    /\ UNCHANGED <<cons, added, disk, cursor, iter, trail, ub, cursor2, heap, event>>

\* Db::close once everything obtained from the Db has been dropped.
DbClose ==
    /\ db.st = "open"
    /\ cursor.st # "live" /\ iter.st # "live" /\ trail.st # "live"
    /\ cursor2.st # "live" /\ event = None
    /\ db' = [db EXCEPT !.st = "closed"]
    /\ ret' = Done("db_close")
    /\ UNCHANGED <<cons, added, disk, cursor, iter, trail, ub, cursor2, heap, event>>

\* Db::get_field_name; a null pointer from the engine is dereferenced.
DbGetFieldName(field) ==
    /\ db.st = "open"
    /\ LET r == Db_get_field_name(db.obj[1], field)
       IN IF r.deref
          THEN \E outcome \in {"ub", "crashed"}, val \in {None, Some("")} :
                  /\ ub' = outcome
                  /\ ret' = [Done("get_field_name") EXCEPT
                                !.arg = field, !.val = val, !.prev = "null"]
          ELSE /\ ub' = ub
               /\ ret' = [Done("get_field_name") EXCEPT
                             !.arg = field, !.val = r.val]
    /\ UNCHANGED <<cons, added, disk, db, cursor, iter, trail, cursor2, heap, event>>

\* ------------------------------------------------------------------ Cursor
\* Db::cursor: a new, unbound Cursor.
DbCursor ==
    /\ db.st = "open"
    /\ cursor.st # "live"
    /\ cursor' = [NoCursor EXCEPT !.st = "live"]
    /\ heap' = Db_cursor(heap)
    /\ ret' = Done("cursor")
    /\ UNCHANGED <<cons, added, disk, db, iter, trail, ub, cursor2, event>>

\* Cursor::get_trail as a method on a cursor record.
Cursor_get_trail(c, d, trail_id) ==
    LET r == tdb_get_trail(c.obj, d, trail_id)
        res == wrap_tdb_err(r.err, 0)
    IN [res |-> res,
        cursor |-> IF res.ok
            THEN [c EXCEPT !.obj = r.cur, !.yielded = <<>>, !.exhausted = FALSE]
            ELSE [c EXCEPT !.obj = r.cur]]

\* Cursor::next as a method on a cursor record.
Cursor_next(c, d) ==
    LET r == tdb_cursor_next(c.obj, d)
        ev == Event_from_tdb_event(r.event)
    IN [event |-> ev,
        cursor |-> [c EXCEPT !.obj = r.cur,
                             !.yielded = @ \o ev,
                             !.exhausted = (ev = None)]]

\* A len that counts by running the iterator to its end.
Cursor_len_by_iterating(c, d) ==
    LET n == Len(cursor_trail(c.obj, d)) - c.obj.pos
    IN [len |-> n, cursor |-> [c EXCEPT !.obj.pos = @ + n]]
\* Cursor::len as a method on a cursor record.
Cursor_len(c, d) ==
    LET r == tdb_get_trail_length(c.obj, d)
    IN [len |-> r.len, cursor |-> [c EXCEPT !.obj = r.cur]]

\* What the cursor was doing before a call (kept in ret.prev).
Phase(c) ==
    IF ret.op = "get_trail" /\ ~ret.ok THEN "failed"
    ELSE IF ~c.obj.bound THEN "fresh"
    ELSE IF c.exhausted THEN "exhausted"
    ELSE IF c.yielded # <<>> THEN "partial"
    ELSE "bound"

CursorGetTrail(trail_id) ==
    /\ db.st = "open" /\ cursor.st = "live"
    /\ LET r == Cursor_get_trail(cursor, db.obj[1], trail_id)
       IN /\ cursor' = r.cursor
          /\ cursor2' = IF cursor2.st = "live"
                         THEN OwnHandle(r.cursor, cursor2) ELSE cursor2
          /\ ret' = [Ret("get_trail", trail_id, r.res) EXCEPT
                        !.prev = Phase(cursor)]
    /\ UNCHANGED <<cons, added, disk, db, iter, trail, ub, heap, event>>

CursorLen ==
    /\ db.st = "open" /\ cursor.st = "live"
    /\ LET r == Cursor_len(cursor, db.obj[1])
       IN /\ cursor' = r.cursor
          /\ cursor2' = IF cursor2.st = "live"
                         THEN OwnHandle(r.cursor, cursor2) ELSE cursor2
          /\ ret' = [Done("len") EXCEPT !.val = r.len]
    /\ UNCHANGED <<cons, added, disk, db, iter, trail, ub, heap, event>>

\* Cursor::next; keep tells whether the caller holds the Event<'a> that was
\* returned, or lets it go at once.
CursorNextKeeping(keep) ==
    /\ db.st = "open" /\ cursor.st = "live"
    /\ LET r == Cursor_next(cursor, db.obj[1])
       IN /\ cursor' = r.cursor
          /\ cursor2' = IF cursor2.st = "live"
                         THEN OwnHandle(r.cursor, cursor2) ELSE cursor2
          /\ event' = IF keep /\ r.event # None THEN r.event ELSE event
          /\ ret' = [Done("next") EXCEPT !.ok = (r.event # None)]
    /\ UNCHANGED <<cons, added, disk, db, iter, trail, ub, heap>>

\* Cursor::next whose Event is read and let go at once.
CursorNext == CursorNextKeeping(FALSE)

\* The caller reads the items of the Event it holds: the slice is a view
\* into the memory of the open database.
EventRead ==
    /\ db.st = "open" /\ event # None
    /\ ret' = [Done("event_read") EXCEPT !.val = Len(event[1].items)]
    /\ UNCHANGED <<cons, added, disk, db, cursor, iter, trail, ub, cursor2,
                   heap, event>>

\* The Event that the caller holds goes out of scope.
EventDrop ==
    /\ event # None
    /\ event' = None
    /\ ret' = Done("event_drop")
    /\ UNCHANGED <<cons, added, disk, db, cursor, iter, trail, ub, cursor2,
                   heap>>

\* impl Drop for Cursor: the cursor handle is freed.
CursorDrop ==
    /\ cursor.st = "live"
    /\ cursor' = NoCursor
    /\ heap' = Cursor_drop(heap)
    /\ ret' = Done("cursor_drop")
    /\ UNCHANGED <<cons, added, disk, db, iter, trail, ub, cursor2, event>>

\* ----------------------------------------------------------- second Cursor
\* Db::cursor, called while the first Cursor is held.
DbCursor2 ==
    /\ db.st = "open"
    /\ cursor.st = "live" /\ cursor2.st # "live"
    /\ cursor2' = [NoCursor EXCEPT !.st = "live"]
    /\ heap' = Db_cursor(heap)
    /\ ret' = Done("cursor2")
    /\ UNCHANGED <<cons, added, disk, db, cursor, iter, trail, ub, event>>

Cursor2GetTrail(trail_id) ==
    /\ db.st = "open" /\ cursor2.st = "live"
    /\ LET r == Cursor_get_trail(cursor2, db.obj[1], trail_id)
       IN /\ cursor2' = r.cursor
          /\ cursor' = IF cursor.st = "live"
                        THEN OwnHandle(r.cursor, cursor) ELSE cursor
          /\ ret' = Ret("get_trail2", trail_id, r.res)
    /\ UNCHANGED <<cons, added, disk, db, iter, trail, ub, heap, event>>

Cursor2Len ==
    /\ db.st = "open" /\ cursor2.st = "live"
    /\ LET r == Cursor_len(cursor2, db.obj[1])
       IN /\ cursor2' = r.cursor
          /\ cursor' = IF cursor.st = "live"
                        THEN OwnHandle(r.cursor, cursor) ELSE cursor
          /\ ret' = [Done("len2") EXCEPT !.val = r.len]
    /\ UNCHANGED <<cons, added, disk, db, iter, trail, ub, heap, event>>

Cursor2Next ==
    /\ db.st = "open" /\ cursor2.st = "live"
    /\ LET r == Cursor_next(cursor2, db.obj[1])
       IN /\ cursor2' = r.cursor
          /\ cursor' = IF cursor.st = "live"
                        THEN OwnHandle(r.cursor, cursor) ELSE cursor
          /\ ret' = [Done("next2") EXCEPT !.ok = (r.event # None)]
    /\ UNCHANGED <<cons, added, disk, db, iter, trail, ub, heap, event>>

Cursor2Drop ==
    /\ cursor2.st = "live"
    /\ cursor2' = NoCursor
    /\ heap' = Cursor_drop(heap)
    /\ ret' = Done("cursor2_drop")
    /\ UNCHANGED <<cons, added, disk, db, cursor, iter, trail, ub, event>>

\* ---------------------------------------------------------- DbIter, Trail
\* Db::iter: a DbIter at position 0.
DbIter ==
    /\ db.st = "open"
    /\ iter' = [NoIter EXCEPT !.st = "live"]
    /\ ret' = Done("iter")
    /\ UNCHANGED <<cons, added, disk, db, cursor, trail, ub, cursor2, heap, event>>

\* Db::get_trail as a function: a new cursor bound to trail_id, or None.
Db_get_trail(d, trail_id) ==
    LET r == Cursor_get_trail([NoCursor EXCEPT !.st = "live"], d, trail_id)
    IN IF ~r.res.ok THEN None
       ELSE Some([st |-> "live", id |-> trail_id, cursor |-> r.cursor])

\* A DbIter::next that advances before it reads its position.
DbIter_next_preincrement(it, d) ==
    LET id == it.pos + 1
        r == Cursor_get_trail([NoCursor EXCEPT !.st = "live"], d, id)
    IN [pos |-> it.pos + 1,
        trail |-> IF r.res.ok
                  THEN Some([st |-> "live", id |-> id, cursor |-> r.cursor])
                  ELSE None]
\* DbIter::next as a function: id is the old pos, pos is incremented, a new
\* cursor is bound to id; Err gives None, Ok gives the Trail.
DbIter_next(it, d) ==
    LET id == it.pos
        r == Cursor_get_trail([NoCursor EXCEPT !.st = "live"], d, id)
    IN [pos |-> it.pos + 1,
        trail |-> IF r.res.ok
                  THEN Some([st |-> "live", id |-> id, cursor |-> r.cursor])
                  ELSE None]

\* The handles after Db::get_trail or DbIter::next made a Cursor with
\* Db::cursor: on a failed bind the new Cursor is dropped at the return; on
\* success it moves into the Trail, and the Trail held before is dropped.
TrailHeap(r) ==
    IF r = None \/ trail.st = "live"
    THEN Cursor_drop(Db_cursor(heap))
    ELSE Db_cursor(heap)

\* DbIter::next; the Trail it yields replaces the one held before.
DbIterNext ==
    /\ db.st = "open" /\ iter.st = "live"
    /\ iter.pos <= NumUuids
    /\ LET r == DbIter_next(iter, db.obj[1])
       IN /\ iter' = [iter EXCEPT
                !.pos = r.pos,
                !.yielded = IF r.trail = None THEN @ ELSE Append(@, r.trail[1].id),
                !.ended = @ \/ r.trail = None]
          /\ trail' = IF r.trail = None THEN trail ELSE r.trail[1]
          /\ heap' = TrailHeap(r.trail)
          /\ ret' = [Done("iter_next") EXCEPT !.ok = (r.trail # None)]
    /\ UNCHANGED <<cons, added, disk, db, cursor, ub, cursor2, event>>

\* Db::get_trail; the Trail it returns replaces the one held before.
DbGetTrail(trail_id) ==
    /\ db.st = "open"
    /\ LET r == Db_get_trail(db.obj[1], trail_id)
       IN /\ trail' = IF r = None THEN trail ELSE r[1]
          /\ heap' = TrailHeap(r)
          /\ ret' = [Done("db_get_trail") EXCEPT
                        !.ok = (r # None), !.arg = trail_id]
    /\ UNCHANGED <<cons, added, disk, db, cursor, iter, ub, cursor2, event>>

\* Trail::next forwards to its cursor.
TrailNext ==
    /\ db.st = "open" /\ trail.st = "live"
    /\ LET r == Cursor_next(trail.cursor, db.obj[1])
       IN /\ trail' = [trail EXCEPT !.cursor = r.cursor]
          /\ ret' = [Done("trail_next") EXCEPT !.ok = (r.event # None)]
    /\ UNCHANGED <<cons, added, disk, db, cursor, iter, ub, cursor2, heap, event>>

\* The Trail goes out of scope: its cursor is dropped.
TrailDrop ==
    /\ trail.st = "live"
    /\ trail' = NoTrail
    /\ heap' = Cursor_drop(heap)
    /\ ret' = Done("trail_drop")
    /\ UNCHANGED <<cons, added, disk, db, cursor, iter, ub, cursor2, event>>

\* The DbIter goes out of scope.
DbIterDrop ==
    /\ iter.st = "live"
    /\ iter' = NoIter
    /\ ret' = Done("iter_drop")
    /\ UNCHANGED <<cons, added, disk, db, cursor, trail, ub, cursor2, heap, event>>

Next ==
    \/ \E u \in Uuids, t \in Timestamps, v \in ValueTuples :
          ConsAddOpen(u, t, v)
    \/ ConsAddSpent
    \/ ConsFinalize
    \/ ConsClose
    \/ DbOpen
    \/ DbClose
    \/ DbCursor
    \/ \E id \in 0..NumUuids : CursorGetTrail(id)
    \/ CursorLen
    \/ CursorNext
    \/ CursorDrop

Spec == Init /\ [][Next]_vars

\* The Constructor, Db::iter, Db::get_trail and the Trails they give.
NextIter ==
    \/ \E u \in Uuids, t \in Timestamps, v \in ValueTuples :
          ConsAddOpen(u, t, v)
    \/ ConsAddSpent
    \/ ConsFinalize
    \/ ConsClose
    \/ DbOpen
    \/ DbClose
    \/ DbIter
    \/ DbIterNext
    \/ TrailNext
    \/ TrailDrop
    \/ DbIterDrop

SpecIter == Init /\ [][NextIter]_vars

\* The Constructor, Db::get_trail and the Trail it gives.
NextTrail ==
    \/ \E u \in Uuids, t \in Timestamps, v \in ValueTuples :
          ConsAddOpen(u, t, v)
    \/ ConsAddSpent
    \/ ConsFinalize
    \/ DbOpen
    \/ DbClose
    \/ \E id \in 0..NumUuids : DbGetTrail(id)
    \/ TrailNext
    \/ TrailDrop

SpecTrail == Init /\ [][NextTrail]_vars

\* Constructors of zero, one or two fields, and what Db reports of the
\* fields.
FieldLists ==
    {<<>>, <<FieldNames[1]>>, FieldNames, <<FieldNames[2], FieldNames[1]>>}
InitNew ==
    \E fields \in FieldLists :
       \E tails \in [1..Len(fields) -> Tails] : New(fields, tails)

NextNew ==
    \/ Alive /\ \E u \in Uuids, v \in ValueTuples :
                    v[2] = "a" /\ ConsAdd(u, 0, v)
    \/ Alive /\ ConsFinalize
    \/ Alive /\ DbOpen
    \/ Alive /\ \E field \in 0..(NumUserFields + 1) : DbGetFieldName(field)

SpecNew == InitNew /\ [][NextNew]_vars

\* Every way a cursor handle is made and dropped: Db::cursor, Db::get_trail
\* and DbIter::next, with Cursors, Trails and a DbIter held together.
NextHandles ==
    \/ \E u \in Uuids : ConsAddOpen(u, 0, [f \in UserFields |-> "a"])
    \/ ConsAddSpent
    \/ ConsFinalize
    \/ DbOpen
    \/ DbClose
    \/ DbCursor
    \/ DbCursor2
    \/ \E id \in 0..NumUuids : CursorGetTrail(id)
    \/ CursorDrop
    \/ Cursor2Drop
    \/ DbIter
    \/ DbIterNext
    \/ DbIterDrop
    \/ \E id \in 0..NumUuids : DbGetTrail(id)
    \/ TrailNext
    \/ TrailDrop

SpecHandles == Init /\ [][NextHandles]_vars

\* Two Cursors over one Db, their calls in any order.
NextTwo ==
    \/ \E u \in Uuids, v \in ValueTuples : v[2] = "a" /\ ConsAddOpen(u, 0, v)
    \/ ConsAddSpent
    \/ ConsFinalize
    \/ DbOpen
    \/ DbCursor
    \/ DbCursor2
    \/ \E id \in 0..NumUuids : CursorGetTrail(id)
    \/ CursorLen
    \/ CursorNext
    \/ CursorDrop
    \/ \E id \in 0..NumUuids : Cursor2GetTrail(id)
    \/ Cursor2Len
    \/ Cursor2Next
    \/ Cursor2Drop

SpecTwo == Init /\ [][NextTwo]_vars

\* A Constructor and an open Db of another path.  The Db is the database of
\* a Constructor that was opened with the field names of the test, given
\* one or two events and finalized; the Constructor is opened with the
\* same names or with the same names in the other order.  Each of the two
\* Constructor::new calls reads its names with the bytes that follow them.
SourceEvents ==
    [uuid : Uuids, timestamp : {1}, values : {[f \in UserFields |-> "b"]}]
SourceLogs ==
    {<<e>> : e \in SourceEvents}
        \cup {<<e1, e2>> : e1 \in SourceEvents, e2 \in SourceEvents}
RECURSIVE cons_build(_, _)
\* The builder after the adds of a log.
cons_build(c, log) ==
    IF log = <<>> THEN c
    ELSE cons_build(tdb_cons_add(c, Head(log).uuid, Head(log).timestamp,
                                 Head(log).values).cons, Tail(log))
InitAppend ==
    /\ \E names \in {FieldNames, <<FieldNames[2], FieldNames[1]>>} :
       \E tails \in [1..Len(names) -> Tails] :
          LET r == Constructor_new(names, tails)
          IN /\ cons = IF r.ok THEN r.val ELSE NoConstructor
             /\ ret = [Ret("new", Len(names), r) EXCEPT
                          !.val = IF r.ok THEN 0 ELSE r.val]
    /\ added = <<>>
    /\ disk = None
    /\ \E log \in SourceLogs :
       \E tails \in [1..Len(FieldNames) -> Tails] :
          LET src == Constructor_new(FieldNames, tails)
          IN /\ src.ok
             /\ db = [st |-> "open",
                      obj |-> Some(tdb_encode(cons_build(src.val, log)))]
    /\ cursor = NoCursor
    /\ iter = NoIter
    /\ trail = NoTrail
    /\ ub = "no"
    /\ cursor2 = NoCursor
    /\ heap = 0
    /\ event = None

NextAppend ==
    \/ Alive /\ \E u \in Uuids, v \in ValueTuples : ConsAdd(u, 0, v)
    \/ Alive /\ ConsAppend
    \/ Alive /\ ConsFinalize

SpecAppend == InitAppend /\ [][NextAppend]_vars

\* ------------------------------------------------- calls on stale handles
\* The signatures take `&mut self`, not `self`: finalize and close leave the
\* Constructor value usable, Db::close leaves the Db value usable, and the
\* Cursor<'a> of Db::cursor(&self) carries the Db's lifetime parameter, not
\* the borrow of the Db, so a Cursor may be held across Db::close.

\* A call that reaches freed engine memory: the process crashes, or goes
\* on with an arbitrary result.
Undefined(op) ==
    /\ \E outcome \in {"ub", "crashed"}, ok \in BOOLEAN :
          /\ ub' = outcome
          /\ ret' = [Done(op) EXCEPT !.ok = ok, !.prev = "stale"]
    /\ UNCHANGED <<cons, added, disk, db, cursor, iter, trail, cursor2, heap, event>>

\* Constructor::finalize on a finalized Constructor.
ConsFinalizeAgain ==
    /\ cons.st = "finalized"
    /\ \E err \in {TDB_ERR_OK, HandleAlreadyOpened} :
          ret' = [Ret("finalize", 0, wrap_tdb_err(err, 0)) EXCEPT
                     !.prev = cons.st]
    /\ UNCHANGED <<cons, added, disk, db, cursor, iter, trail, ub, cursor2, heap, event>>

\* Constructor::close on a finalized Constructor: frees the builder.
ConsCloseAfterFinalize ==
    /\ cons.st = "finalized"
    /\ cons' = tdb_cons_close(cons)
    /\ ret' = [Done("cons_close") EXCEPT !.prev = cons.st]
    /\ UNCHANGED <<added, disk, db, cursor, iter, trail, ub, cursor2, heap, event>>

\* add, finalize, close or append on a Constructor whose builder was
\* freed; append takes a Db value.
ConsStale(op) ==
    /\ cons.st = "closed"
    /\ op = "append" => db.st # "none"
    /\ Undefined(op)

\* Db::close while a Cursor of this Db is live or an Event of such a
\* Cursor is held: neither borrows the Db.  A Trail and a DbIter do.
DbCloseLive ==
    /\ db.st = "open"
    /\ cursor.st = "live" \/ cursor2.st = "live" \/ event # None
    /\ iter.st # "live" /\ trail.st # "live"
    /\ db' = [db EXCEPT !.st = "closed"]
    /\ ret' = Done("db_close")
    /\ UNCHANGED <<cons, added, disk, cursor, iter, trail, ub, cursor2, heap, event>>

\* get_trail, len or next on a Cursor whose Db was closed.
CursorStale(op) ==
    /\ db.st = "closed" /\ cursor.st = "live"
    /\ Undefined(op)

\* get_trail, len or next on the second Cursor when its Db was closed.
Cursor2Stale(op) ==
    /\ db.st = "closed" /\ cursor2.st = "live"
    /\ Undefined(op)

\* The caller reads the items of the Event it holds when the Db was
\* closed: the slice points into the freed database.
EventStale ==
    /\ db.st = "closed" /\ event # None
    /\ Undefined("event_read")

\* The methods of Db that hand the database handle to the engine and make
\* no Cursor.
DbCalls ==
    {"db_close", "num_trails", "num_events", "num_fields", "min_timestamp",
     "max_timestamp", "version", "will_need", "dont_need", "get_trail_id",
     "get_uuid", "get_item_value", "get_field_name"}

\* A method of Db on a closed Db: the engine is handed the freed database.
\* Db::close takes `&mut self`: it is called while no Trail and no DbIter
\* of the Db is held.
DbStale(op) ==
    /\ db.st = "closed"
    /\ op = "db_close" => (iter.st # "live" /\ trail.st # "live")
    /\ Undefined(op)

\* Db::cursor on a closed Db: tdb_cursor_new is handed the freed database.
\* When the process goes on, the call has made a Cursor that holds the
\* handle tdb_cursor_new returned.
DbCursorStale ==
    /\ db.st = "closed" /\ cursor.st # "live"
    /\ \E outcome \in {"ub", "crashed"} :
          /\ ub' = outcome
          /\ cursor' = IF outcome = "ub"
                       THEN [NoCursor EXCEPT !.st = "live"] ELSE cursor
          /\ heap' = IF outcome = "ub" THEN Db_cursor(heap) ELSE heap
          /\ ret' = [Done("cursor") EXCEPT
                        !.ok = (outcome = "ub"), !.prev = "stale"]
    /\ UNCHANGED <<cons, added, disk, db, iter, trail, cursor2, event>>

\* Db::cursor on a closed Db while the first Cursor is held.
DbCursor2Stale ==
    /\ db.st = "closed" /\ cursor.st = "live" /\ cursor2.st # "live"
    /\ \E outcome \in {"ub", "crashed"} :
          /\ ub' = outcome
          /\ cursor2' = IF outcome = "ub"
                        THEN [NoCursor EXCEPT !.st = "live"] ELSE cursor2
          /\ heap' = IF outcome = "ub" THEN Db_cursor(heap) ELSE heap
          /\ ret' = [Done("cursor2") EXCEPT
                        !.ok = (outcome = "ub"), !.prev = "stale"]
    /\ UNCHANGED <<cons, added, disk, db, cursor, iter, trail, event>>

\* The Trail that a bind to trail_id of a freed database gives when the
\* engine answers TDB_ERR_OK.
StaleTrail(trail_id) ==
    [st |-> "live", id |-> trail_id,
     cursor |-> [NoCursor EXCEPT
                    !.st = "live",
                    !.obj = [bound |-> TRUE, trail |-> trail_id, pos |-> 0]]]

\* Db::get_trail on a closed Db: a Cursor is made as by Db::cursor and bound
\* in the freed database; the bind answers anything.
DbGetTrailStale(trail_id) ==
    /\ db.st = "closed"
    /\ \E outcome \in {"ub", "crashed"}, ok \in BOOLEAN :
          LET r == IF ok /\ outcome = "ub"
                   THEN Some(StaleTrail(trail_id)) ELSE None
          IN /\ ub' = outcome
             /\ trail' = IF r = None THEN trail ELSE r[1]
             /\ heap' = IF outcome = "ub" THEN TrailHeap(r) ELSE heap
             /\ ret' = [Done("db_get_trail") EXCEPT
                           !.ok = (r # None), !.arg = trail_id,
                           !.prev = "stale"]
    /\ UNCHANGED <<cons, added, disk, db, cursor, iter, cursor2, event>>

\* Db::iter on a closed Db: the DbIter is made with no call to the engine.
DbIterOfClosed ==
    /\ db.st = "closed"
    /\ iter' = [NoIter EXCEPT !.st = "live"]
    /\ ret' = [Done("iter") EXCEPT !.prev = "stale"]
    /\ UNCHANGED <<cons, added, disk, db, cursor, trail, ub, cursor2, heap, event>>

\* DbIter::next of a DbIter of a closed Db: pos is incremented, a Cursor is
\* made and bound in the freed database; the bind answers anything.
DbIterNextStale ==
    /\ db.st = "closed" /\ iter.st = "live"
    /\ iter.pos <= NumUuids
    /\ \E outcome \in {"ub", "crashed"}, ok \in BOOLEAN :
          LET r == IF ok /\ outcome = "ub"
                   THEN Some(StaleTrail(iter.pos)) ELSE None
          IN /\ ub' = outcome
             /\ iter' = IF outcome = "crashed" THEN iter
                  ELSE [iter EXCEPT
                     !.pos = @ + 1,
                     !.yielded = IF r = None THEN @ ELSE Append(@, r[1].id),
                     !.ended = @ \/ r = None]
             /\ trail' = IF r = None THEN trail ELSE r[1]
             /\ heap' = IF outcome = "ub" THEN TrailHeap(r) ELSE heap
             /\ ret' = [Done("iter_next") EXCEPT
                           !.ok = (r # None), !.prev = "stale"]
    /\ UNCHANGED <<cons, added, disk, db, cursor, cursor2, event>>

\* Trail::next on a Trail of a closed Db.
TrailStale ==
    /\ db.st = "closed" /\ trail.st = "live"
    /\ Undefined("trail_next")

\* The values of an add that gives fewer values than the Constructor has
\* fields.
ShortValueTuples == {<<"a">>}

\* Every call that the signatures admit on a Constructor, whatever was
\* called on it before.
NextLife ==
    \/ Alive /\ \E u \in Uuids, t \in Timestamps, v \in ValueTuples : ConsAdd(u, t, v)
    \/ Alive /\ \E u \in Uuids, v \in ShortValueTuples : ConsAdd(u, 0, v)
    \/ Alive /\ ConsFinalize
    \/ Alive /\ ConsClose
    \/ Alive /\ DbOpen
    \/ Alive /\ DbClose
    \/ Alive /\ ConsFinalizeAgain
    \/ Alive /\ ConsCloseAfterFinalize
    \/ Alive /\ ConsAppend
    \/ Alive /\ \E op \in {"add", "finalize", "cons_close", "append"} :
                    ConsStale(op)

SpecLife == Init /\ [][NextLife]_vars

\* The calls on a Db and on what was obtained from it, whether the Db has
\* been closed or not, on a database of at most one event: the methods of
\* Db, a Cursor, a DbIter, a Trail, an Event of Cursor::next that is held,
\* read and dropped, and a second Cursor that is made while the first is
\* held, used once the Db is closed, and dropped (SpecTwo has the calls on
\* two Cursors of an open Db).
NextClosed ==
    \/ Alive /\ \E v \in ValueTuples :
                    /\ v[2] = "a"
                    /\ cons.st = "finalized" \/ added = <<>>
                    /\ ConsAdd(1, 0, v)
    \/ Alive /\ ConsFinalize
    \/ Alive /\ DbOpen
    \/ Alive /\ DbClose
    \/ Alive /\ \E field \in 0..NumUserFields + 1 : DbGetFieldName(field)
    \/ Alive /\ DbCursor
    \/ Alive /\ \E id \in 0..1 : CursorGetTrail(id)
    \/ Alive /\ CursorLen
    \/ Alive /\ \E keep \in BOOLEAN : CursorNextKeeping(keep)
    \/ Alive /\ CursorDrop
    \/ Alive /\ EventRead
    \/ Alive /\ EventDrop
    \/ Alive /\ DbCursor2
    \/ Alive /\ Cursor2Drop
    \/ Alive /\ DbIter
    \/ Alive /\ DbIterNext
    \/ Alive /\ \E id \in 0..1 : DbGetTrail(id)
    \/ Alive /\ TrailNext
    \/ Alive /\ TrailDrop
    \/ Alive /\ DbIterDrop
    \/ Alive /\ DbCloseLive
    \/ Alive /\ \E op \in {"get_trail", "len", "next"} : CursorStale(op)
    \/ Alive /\ \E op \in {"get_trail2", "len2", "next2"} : Cursor2Stale(op)
    \/ Alive /\ EventStale
    \/ Alive /\ \E op \in DbCalls : DbStale(op)
    \/ Alive /\ DbCursorStale
    \/ Alive /\ DbCursor2Stale
    \/ Alive /\ DbGetTrailStale(0)
    \/ Alive /\ DbIterOfClosed
    \/ Alive /\ DbIterNextStale
    \/ Alive /\ TrailStale

SpecClosed == Init /\ [][NextClosed]_vars

\* ================================================================ claims
\* The open database, the add history of one uuid, the uuid of a trail.
TheDb == db.obj[1]
AddedFor(u) == Filter(added, u)
AddedUuids == {added[i].uuid : i \in 1..Len(added)}
TrailUuid(t) == Db_get_uuid(TheDb, t)[1]

RECURSIVE Drain(_, _, _)
\* The events that repeated next() calls yield from cursor c before the
\* first None (at most n calls).
Drain(c, d, n) ==
    IF n = 0 THEN <<>>
    ELSE LET r == Cursor_next(c, d)
         IN IF r.event = None THEN <<>>
            ELSE r.event \o Drain(r.cursor, d, n - 1)
DrainAll(c) == Drain(c, TheDb, MaxAdds + 2)

\* Event j of a sequence of yielded events is the j-th add of uuid u.
MatchesAdds(events, u) ==
    /\ Len(events) = Len(AddedFor(u))
    /\ \A j \in 1..Len(events) :
          /\ events[j].timestamp = AddedFor(u)[j].timestamp
          /\ \A f \in 1..Len(events[j].items) :
                Db_get_item_value(TheDb, events[j].items[f])
                    = AddedFor(u)[j].values[f]

\* C1: after add calls, a successful finalize and Db::open, num_trails()
\* is the number of distinct Uuids passed to add and num_events() is the
\* number of add calls.
C1_Counts ==
    db.st = "open" =>
        /\ Db_num_trails(TheDb) = Cardinality(AddedUuids)
        /\ Db_num_events(TheDb) = Len(added)
C1_Witness ==
    /\ db.st = "open"
    /\ Len(added) = 2
    /\ Db_num_trails(TheDb) = 1

\* C2: Uuid <-> TrailId is a bijection over the opened database: an added
\* uuid has a trail id below num_trails() that get_uuid maps back to it,
\* distinct uuids have distinct ids, a uuid never added has none, and
\* get_uuid returns nothing for ids >= num_trails().
C2_Bijection ==
    db.st = "open" =>
        /\ \A u \in AddedUuids :
              /\ Db_get_trail_id(TheDb, u) # None
              /\ Db_get_trail_id(TheDb, u)[1] < Db_num_trails(TheDb)
              /\ Db_get_uuid(TheDb, Db_get_trail_id(TheDb, u)[1]) = Some(u)
        /\ \A u \in Uuids \ AddedUuids : Db_get_trail_id(TheDb, u) = None
        /\ \A t \in 0..(NumUuids + 1) :
              IF t < Db_num_trails(TheDb)
              THEN /\ Db_get_uuid(TheDb, t) # None
                   /\ Db_get_trail_id(TheDb, Db_get_uuid(TheDb, t)[1]) = Some(t)
              ELSE Db_get_uuid(TheDb, t) = None
C2_Witness ==
    /\ db.st = "open"
    /\ Db_get_trail_id(TheDb, 2) = Some(0)
    /\ Db_get_trail_id(TheDb, 1) = None
    /\ Db_get_uuid(TheDb, 0) = Some(2)
    /\ Db_get_uuid(TheDb, 1) = None

\* C3: every Item of every event a cursor has yielded from a trail
\* resolves, through get_item_value, to the byte string passed to add for
\* that field of that event.
C3_ItemRoundTrip ==
    (db.st = "open" /\ cursor.st = "live" /\ cursor.obj.bound) =>
        \A j \in 1..Len(cursor.yielded) :
            /\ j <= Len(AddedFor(TrailUuid(cursor.obj.trail)))
            /\ \A f \in 1..Len(cursor.yielded[j].items) :
                  Db_get_item_value(TheDb, cursor.yielded[j].items[f])
                      = AddedFor(TrailUuid(cursor.obj.trail))[j].values[f]
C3_Witness ==
    /\ db.st = "open" /\ cursor.st = "live"
    /\ Len(cursor.yielded) = 2
    /\ Len(cursor.yielded[1].items) = NumUserFields
    /\ Db_get_item_value(TheDb, cursor.yielded[1].items[1]) = "b"
    /\ Db_get_item_value(TheDb, cursor.yielded[1].items[2]) = "a"
    /\ Db_get_item_value(TheDb, cursor.yielded[2].items[1]) = "a"

\* C4: on a bound cursor, len() is the number of events next() yields
\* before returning nothing, which is the number of adds made for the
\* trail's Uuid; len() does not consume: the events yielded before it plus
\* the events still to come after it are the whole trail.
C4_LenIsCount ==
    (db.st = "open" /\ cursor.st = "live" /\ cursor.obj.bound) =>
        /\ ret.op = "len" =>
              /\ ret.val = Len(cursor.yielded) + Len(DrainAll(cursor))
              /\ ret.val = Len(AddedFor(TrailUuid(cursor.obj.trail)))
        /\ cursor.exhausted =>
              /\ Len(cursor.yielded) = Cursor_len(cursor, TheDb).len
              /\ Len(cursor.yielded) = Len(AddedFor(TrailUuid(cursor.obj.trail)))
C4_Witness ==
    /\ db.st = "open" /\ cursor.st = "live" /\ cursor.obj.bound
    /\ ret.op = "len" /\ ret.val = 2
    /\ cursor.yielded = <<>>
    /\ Len(DrainAll(cursor)) = 2

\* C5: a successful get_trail(t), from whatever state the cursor was in,
\* leaves the cursor at the first event of t: the following next() calls
\* yield all of t's events from the start; and an exhausted cursor keeps
\* returning nothing.
C5_RebindResets ==
    (db.st = "open" /\ cursor.st = "live") =>
        /\ (ret.op = "get_trail" /\ ret.ok) =>
              /\ cursor.obj.bound /\ cursor.obj.trail = ret.arg
              /\ cursor.yielded = <<>>
              /\ MatchesAdds(DrainAll(cursor), TrailUuid(ret.arg))
        /\ cursor.exhausted => Cursor_next(cursor, TheDb).event = None
C5_Witness ==
    /\ db.st = "open" /\ cursor.st = "live"
    /\ ret.op = "get_trail" /\ ret.ok /\ ret.prev = "partial"
    /\ Len(DrainAll(cursor)) = 2

\* C6: get_trail(id) with id >= num_trails() returns Err(InvalidTrailId),
\* a valid id returns Ok, and after a failed bind the cursor is still
\* usable: a get_trail with any valid id succeeds and iterates that trail.
C6_InvalidTrailId ==
    (db.st = "open" /\ cursor.st = "live" /\ ret.op = "get_trail") =>
        /\ ret.ok <=> ret.arg < Db_num_trails(TheDb)
        /\ ~ret.ok =>
              /\ ret.val = InvalidTrailId
              /\ \A t \in 0..(Db_num_trails(TheDb) - 1) :
                    LET r == Cursor_get_trail(cursor, TheDb, t)
                    IN /\ r.res.ok
                       /\ MatchesAdds(DrainAll(r.cursor), TrailUuid(t))
        /\ (ret.ok /\ ret.prev = "failed") =>
              MatchesAdds(DrainAll(cursor), TrailUuid(ret.arg))
C6_Witness ==
    /\ db.st = "open" /\ cursor.st = "live"
    /\ ret.op = "get_trail" /\ ret.ok /\ ret.prev = "failed"
    /\ Len(DrainAll(cursor)) >= 1

C7_IterOrder ==
    (db.st = "open" /\ iter.st = "live") =>
        /\ Len(iter.yielded) <= Db_num_trails(TheDb)
        /\ \A i \in 1..Len(iter.yielded) : iter.yielded[i] = i - 1
        /\ iter.ended => Len(iter.yielded) = Db_num_trails(TheDb)
        /\ ret.op = "iter" => (iter.pos = 0 /\ iter.yielded = <<>>)
        /\ (ret.op = "iter_next" /\ ret.ok) =>
              /\ trail.st = "live"
              /\ trail.id = Len(iter.yielded) - 1
              /\ trail.cursor.obj.bound
              /\ trail.cursor.obj.trail = trail.id
              /\ MatchesAdds(DrainAll(trail.cursor), TrailUuid(trail.id))
        /\ (ret.op = "iter_next" /\ ~ret.ok) => iter.ended
C7_Witness ==
    /\ db.st = "open" /\ iter.st = "live"
    /\ iter.ended /\ iter.yielded = <<0, 1>>
    /\ ret.op = "iter_next" /\ ~ret.ok

\* C9: each Constructor is consumed by exactly one terminal operation: every
\* add, finalize, append and close is made on a Constructor that has been
\* neither finalized nor closed, and close writes no database.
C9_ConsumedOnce ==
    /\ ret.op \in {"add", "finalize", "append", "cons_close"} =>
          ret.prev = "open"
    /\ (ret.op = "cons_close" /\ ret.prev = "open") => disk = None

\* C10: no Cursor, Trail, DbIter or Event obtained from a Db is held or
\* used (get_trail, len, next, drop, reading an Event, resolving an item)
\* after that Db's close().
C10_NoUseAfterClose ==
    db.st = "closed" =>
        /\ cursor.st # "live" /\ cursor2.st # "live"
        /\ iter.st # "live" /\ trail.st # "live"
        /\ event = None
        /\ ret.op \notin {"get_trail", "len", "next", "cursor_drop",
                          "get_trail2", "len2", "next2", "cursor2_drop",
                          "iter_next", "trail_next", "trail_drop",
                          "event_read", "get_item_value"}

\* The events of trail t of database image d, read through a new Cursor.
ImageTrail(d, t) ==
    Drain(Cursor_get_trail([NoCursor EXCEPT !.st = "live"], d, t).cursor,
          d, 2 * MaxAdds + 2)

\* Database image d holds the history: one trail for each uuid of the
\* history and for no other, the trail's events being the uuid's events of
\* the history, in their order, with their timestamps and values.
ImageHolds(d, U) ==
    /\ Db_num_events(d) = Len(added)
    /\ \A u \in U :
          IF u \in AddedUuids
          THEN /\ Db_get_trail_id(d, u) # None
               /\ LET evs == ImageTrail(d, Db_get_trail_id(d, u)[1])
                  IN /\ Len(evs) = Len(AddedFor(u))
                     /\ \A j \in 1..Len(evs) :
                           /\ evs[j].timestamp = AddedFor(u)[j].timestamp
                           /\ \A f \in 1..Len(evs[j].items) :
                                 Db_get_item_value(d, evs[j].items[f])
                                     = AddedFor(u)[j].values[f]
          ELSE Db_get_trail_id(d, u) = None
ImageMatches(d) == ImageHolds(d, Uuids)

\* C11: after append(db) of a Db with the Constructor's field schema has
\* returned Ok, the finalized result has, for each Uuid, the events the
\* Constructor had been given for it followed by the events of db for it,
\* none lost or reordered; the Uuids found only in db are trails of the
\* result.
C11_AppendMerges ==
    (cons.st = "finalized" /\ disk # None /\ db.st = "open"
        /\ TheDb.fields = <<"time">> \o cons.fields) =>
        ImageMatches(disk[1])

\* C12: append(db) of a Db whose field names or their order differ from the
\* Constructor's returns Err(AppendFieldsMismatch) and leaves the
\* Constructor with the events it had.
C12_AppendMismatch ==
    (ret.op = "append" /\ TheDb.fields # <<"time">> \o cons.fields) =>
        /\ ~ret.ok /\ ret.val = AppendFieldsMismatch
        /\ Len(cons.events) = Len(added)

\* What a Cursor used alone shows: unbound, it has yielded nothing and
\* yields nothing; bound, the events it has yielded followed by the events
\* it has yet to yield are the trail it was last bound to, and its len()
\* is their number.
AsAlone(c) ==
    IF ~c.obj.bound
    THEN c.yielded = <<>> /\ Cursor_next(c, TheDb).event = None
    ELSE /\ MatchesAdds(c.yielded \o DrainAll(c), TrailUuid(c.obj.trail))
         /\ Cursor_len(c, TheDb).len = Len(c.yielded) + Len(DrainAll(c))

\* C14: two Cursors over the same Db do not interfere: in every
\* interleaving of get_trail, len and next calls on the two, each Cursor
\* yields what it would yield were it used alone.
C14_CursorsIndependent ==
    db.st = "open" =>
        /\ cursor.st = "live" => AsAlone(cursor)
        /\ cursor2.st = "live" => AsAlone(cursor2)
        /\ (ret.op = "len" /\ cursor.st = "live") =>
              ret.val = Len(cursor.yielded) + Len(DrainAll(cursor))
        /\ (ret.op = "len2" /\ cursor2.st = "live") =>
              ret.val = Len(cursor2.yielded) + Len(DrainAll(cursor2))
C14_Witness ==
    /\ db.st = "open" /\ cursor.st = "live" /\ cursor2.st = "live"
    /\ cursor.obj.bound /\ cursor2.obj.bound
    /\ cursor.obj.trail = cursor2.obj.trail
    /\ Len(cursor.yielded) = 1 /\ Len(cursor2.yielded) = 2
    /\ ret.op = "next"

\* C15: within a trail, a cursor yields the events in the order of the add
\* calls for the trail's Uuid, also when their timestamps do not increase:
\* the j-th event yielded has the timestamp and the values of the j-th add.
C15_InsertionOrder ==
    (db.st = "open" /\ cursor.st = "live" /\ cursor.obj.bound) =>
        LET adds == AddedFor(TrailUuid(cursor.obj.trail))
        IN /\ Len(cursor.yielded) <= Len(adds)
           /\ \A j \in 1..Len(cursor.yielded) :
                 /\ cursor.yielded[j].timestamp = adds[j].timestamp
                 /\ \A f \in UserFields :
                       Db_get_item_value(TheDb, cursor.yielded[j].items[f])
                           = adds[j].values[f]
C15_Witness ==
    /\ db.st = "open" /\ cursor.st = "live" /\ cursor.obj.bound
    /\ Len(cursor.yielded) = 2
    /\ cursor.yielded[1].timestamp = 1
    /\ cursor.yielded[2].timestamp = 0

\* C16: min_timestamp() and max_timestamp() of the opened database are the
\* least and the greatest of the timestamps passed to the successful adds.
C16_TimestampRange ==
    (db.st = "open" /\ added # <<>>) =>
        /\ \A i \in 1..Len(added) :
              /\ Db_min_timestamp(TheDb) <= added[i].timestamp
              /\ added[i].timestamp <= Db_max_timestamp(TheDb)
        /\ \E i \in 1..Len(added) : added[i].timestamp = Db_min_timestamp(TheDb)
        /\ \E i \in 1..Len(added) : added[i].timestamp = Db_max_timestamp(TheDb)
C16_Witness ==
    /\ db.st = "open" /\ Len(added) = 2
    /\ added[1].timestamp = 1 /\ added[2].timestamp = 0
    /\ Db_min_timestamp(TheDb) = 0
    /\ Db_max_timestamp(TheDb) = 1

\* C17: the database of a Constructor opened with k distinct user field
\* names has num_fields() = k + 1.
C17_NumFields ==
    db.st = "open" => Db_num_fields(TheDb) = Len(cons.declared) + 1
C17_Witness ==
    /\ db.st = "open"
    /\ Len(cons.declared) = 1
    /\ Db_num_fields(TheDb) = 2
    /\ Len(added) = 1

\* C18, as stated: every Event a Cursor yields has num_fields() items, one
\* for each field, the reserved field included.
C18_ItemsPerField ==
    (db.st = "open" /\ cursor.st = "live") =>
        \A j \in 1..Len(cursor.yielded) :
            Len(cursor.yielded[j].items) = Db_num_fields(TheDb)
\* C18, amended: every Event a Cursor yields has one item for each user
\* field (num_fields() - 1 items: the reserved field 0 has none), in the
\* order of declaration: the item in place f is an item of field f.
C18_ItemsPerUserField ==
    (db.st = "open" /\ cursor.st = "live") =>
        \A j \in 1..Len(cursor.yielded) :
            /\ Len(cursor.yielded[j].items) = Db_num_fields(TheDb) - 1
            /\ \A f \in 1..Len(cursor.yielded[j].items) :
                  tdb_item_field(cursor.yielded[j].items[f]) = f
C18_Witness ==
    /\ db.st = "open" /\ cursor.st = "live"
    /\ Len(cursor.yielded) = 1
    /\ Db_num_fields(TheDb) = 3
    /\ Len(cursor.yielded[1].items) = 2
    /\ tdb_item_field(cursor.yielded[1].items[2]) = 2

\* C19: get_field_name(field) returns the declared name of every user
\* field below num_fields() and nothing for a field at or above
\* num_fields(), and never dereferences what the engine gave for an unknown
\* field.
C19_FieldNames ==
    (db.st = "open" /\ ret.op = "get_field_name") =>
        /\ ub = "no" /\ ret.prev # "null"
        /\ (1 <= ret.arg /\ ret.arg < Db_num_fields(TheDb)) =>
              ret.val = Some(cons.declared[ret.arg])
        /\ ret.arg >= Db_num_fields(TheDb) => ret.val = None

\* The Cursor values that exist: the two Cursors and the Trail's cursor.
LiveCursors ==
    (IF cursor.st = "live" THEN 1 ELSE 0)
        + (IF cursor2.st = "live" THEN 1 ELSE 0)
        + (IF trail.st = "live" THEN 1 ELSE 0)

\* C20: every cursor handle that Db::cursor allocated, directly or inside
\* Db::get_trail and DbIter::next, a failed bind included, is freed exactly
\* once, when its Cursor is dropped: the handles allocated and not freed
\* are those of the Cursors that exist; and a call on a Cursor is a call
\* on a handle that has not been freed.
C20_HandlesFreedOnce ==
    /\ heap = LiveCursors
    /\ ret.op \in {"get_trail", "len", "next"} => cursor.st = "live"
    /\ ret.op \in {"get_trail2", "len2", "next2"} => cursor2.st = "live"
    /\ ret.op = "trail_next" => trail.st = "live"
C20_Witness ==
    /\ db.st = "open"
    /\ ret.op = "iter_next" /\ ~ret.ok
    /\ cursor.st = "live" /\ trail.st = "live"
    /\ heap = 2

====
